---- MODULE Spec2Model ----
(***************************************************************************)
(* A model of pg-queue (src/src/lib.rs): a FIFO work queue kept in one     *)
(* Postgres table.  Queue::enqueue inserts a row in its own transaction;   *)
(* Queue::process claims the lowest-id row of status 0 with                *)
(* UPDATE .. WHERE id = (SELECT .. FOR UPDATE SKIP LOCKED LIMIT 1), hands   *)
(* it to the caller's closure f and commits or rolls back on f's verdict.  *)
(*                                                                         *)
(* The table holds the COMMITTED rows.  A transaction's uncommitted work   *)
(* (an inserted row, the status update of a claimed row, the row lock)     *)
(* lives in the state of the caller that owns the transaction and reaches  *)
(* the table only at commit.  Every .await of the source is a step of its  *)
(* own, so callers interleave exactly where the code can be suspended.     *)
(***************************************************************************)
EXTENDS Naturals, FiniteSets

\* ---------------------------------------------------------------- bounds
NWorkers   == 2     \* callers of Queue::process
NProducers == 2     \* callers of Queue::enqueue
MaxId      == 2     \* values the id sequence may hand out
MaxItem    == 2     \* items are 0..MaxItem; item 0 does not serialize

Workers   == 1..NWorkers
Producers == 1..NProducers
Ids       == 1..MaxId
Items     == 0..MaxItem
Msgs      == {"boom", "bang"}       \* messages a handler may put in Fail(..)

\* ---------------------------------------------------------------- schema
\* The status column.  enqueue leaves it at 0 (Ready); the claim statement
\* writes 'in-progress'.  Done and Failed belong to the documented schema
\* (status 0..2) but no statement of the source writes them.
Ready      == "Ready"
InProgress == "InProgress"
Done       == "Done"
Failed     == "Failed"
Absent     == "Absent"             \* no committed row has this id
NULL       == "NULL"               \* the error column of a row without error

NoRow      == [status |-> Absent, item |-> 0, error |-> NULL]
\* What f returned: a ProcessFlow (Success, Requeue, Fail(msg)) or Err.
NoVerdict  == [kind |-> "None", msg |-> NULL]

VARIABLES
    rows,       \* the committed table: id -> [status, item, error] or NoRow
    nextId,     \* the SERIAL sequence behind the id column
    pc,         \* per worker: where its process call stands
    claimed,    \* per worker: the row its current/last call claimed, 0 if none
    verdict,    \* per worker: what f returned in its current/last call
    result,     \* per worker: what its last finished process call returned
    epc,        \* per producer: where its enqueue call stands
    eid,        \* per producer: the id its INSERT returned (uncommitted), 0 if none
    eitem,      \* per producer: the serialized item of its open transaction
    eresult     \* per producer: what its last finished enqueue call returned

vars == <<rows, nextId, pc, claimed, verdict, result, epc, eid, eitem, eresult>>
wvars == <<pc, claimed, verdict, result>>
evars == <<epc, eid, eitem, eresult>>

\* ---------------------------------------------------------------- helpers
\* serde_json::to_value: fails for a value with no JSON form (item 0 here),
\* yields the JSON value otherwise.
Serializable(item) == item # 0
ToValue(item) == item

\* The transaction of worker w is open and holds the row lock on claimed[w].
InTx(w) == pc[w] \in {"handling", "committing", "rollingback"}
Holds(w, r) == InTx(w) /\ claimed[w] = r
LockedNever(r) == FALSE
Locked(r) == \E w \in Workers : Holds(w, r)

\* SELECT id FROM queue WHERE status = 0 ORDER BY id ASC
\*   FOR UPDATE SKIP LOCKED LIMIT 1
\* sees committed rows only, passes over rows locked by another transaction.
ClaimableNoLock == {r \in Ids : rows[r].status = Ready}
ClaimableAnyStatus == {r \in Ids : rows[r].status # Absent /\ ~Locked(r)}
ClaimableHeadOnly ==
    {r \in Ids : /\ rows[r].status = Ready
                 /\ \A q \in Ids : (q <= r /\ rows[q].status = Ready) => ~Locked(q)
                 /\ \A q \in Ids : rows[q].status = Ready => r <= q}
Claimable == {r \in Ids : rows[r].status = Ready /\ ~Locked(r)}
SetMax(S) == CHOOSE x \in S : \A y \in S : x >= y
SetMin(S) == CHOOSE x \in S : \A y \in S : x <= y
SelectForUpdate == IF Claimable = {} THEN 0 ELSE SetMin(Claimable)

\* RETURNING *: the claimed row as the claiming transaction sees it.
Returned(r) == [rows[r] EXCEPT !.status = InProgress]

Init ==
    /\ rows = [r \in Ids |-> NoRow]
    /\ nextId = 1
    /\ pc = [w \in Workers |-> "idle"]
    /\ claimed = [w \in Workers |-> 0]
    /\ verdict = [w \in Workers |-> NoVerdict]
    /\ result = [w \in Workers |-> "None"]
    /\ epc = [p \in Producers |-> "idle"]
    /\ eid = [p \in Producers |-> 0]
    /\ eitem = [p \in Producers |-> 0]
    /\ eresult = [p \in Producers |-> "None"]

\* ================================================================ enqueue
\* lib.rs:27  let item = serde_json::to_value(item)?;  -- the error path
EnqSerializeFail(p) ==
    /\ epc[p] = "idle"
    /\ \E item \in Items : ~Serializable(item)
    /\ eresult' = [eresult EXCEPT ![p] = "SerializationError"]
    /\ UNCHANGED <<rows, nextId, epc, eid, eitem, wvars>>

\* lib.rs:27-28  to_value succeeds and conn.begin() opens the transaction
EnqBegin(p) ==
    /\ epc[p] = "idle"
    /\ \E item \in Items :
        /\ Serializable(item)
        /\ eitem' = [eitem EXCEPT ![p] = ToValue(item)]
    /\ epc' = [epc EXCEPT ![p] = "begun"]
    /\ eid' = [eid EXCEPT ![p] = 0]
    /\ eresult' = [eresult EXCEPT ![p] = "None"]
    /\ UNCHANGED <<rows, nextId, wvars>>

\* lib.rs:28  conn.begin().await? fails
EnqBeginFail(p) ==
    /\ epc[p] = "idle"
    /\ \E item \in Items : Serializable(item)
    /\ eid' = [eid EXCEPT ![p] = 0]
    /\ eresult' = [eresult EXCEPT ![p] = "StoreError"]
    /\ UNCHANGED <<rows, nextId, epc, eitem, wvars>>

EnqInsertNoAdvance(p) ==
    /\ epc[p] = "begun"
    /\ nextId <= MaxId
    /\ eid' = [eid EXCEPT ![p] = nextId]
    /\ epc' = [epc EXCEPT ![p] = "inserted"]
    /\ UNCHANGED <<rows, nextId, eitem, eresult, wvars>>

\* lib.rs:29-31  INSERT .. RETURNING id: the sequence hands out the id now;
\* the row stays invisible to every other transaction until commit.
EnqInsert(p) ==
    /\ epc[p] = "begun"
    /\ nextId <= MaxId
    /\ eid' = [eid EXCEPT ![p] = nextId]
    /\ nextId' = nextId + 1
    /\ epc' = [epc EXCEPT ![p] = "inserted"]
    /\ UNCHANGED <<rows, eitem, eresult, wvars>>

EnqCommitEmptyError(p) ==
    /\ epc[p] = "inserted"
    /\ rows' = [rows EXCEPT ![eid[p]] =
                    [status |-> Ready, item |-> eitem[p], error |-> ""]]
    /\ epc' = [epc EXCEPT ![p] = "idle"]
    /\ eitem' = [eitem EXCEPT ![p] = 0]
    /\ eresult' = [eresult EXCEPT ![p] = "Ok"]
    /\ UNCHANGED <<nextId, eid, wvars>>

\* lib.rs:32-33  tx.commit() makes the row visible; Ok(id)
EnqCommit(p) ==
    /\ epc[p] = "inserted"
    /\ rows' = [rows EXCEPT ![eid[p]] =
                    [status |-> Ready, item |-> eitem[p], error |-> NULL]]
    /\ epc' = [epc EXCEPT ![p] = "idle"]
    /\ eitem' = [eitem EXCEPT ![p] = 0]
    /\ eresult' = [eresult EXCEPT ![p] = "Ok"]
    /\ UNCHANGED <<nextId, eid, wvars>>

EnqAbortLeavesRow(p) ==
    /\ epc[p] \in {"begun", "inserted"}
    /\ rows' = IF eid[p] \in Ids
               THEN [rows EXCEPT ![eid[p]] =
                        [status |-> Ready, item |-> eitem[p], error |-> NULL]]
               ELSE rows
    /\ epc' = [epc EXCEPT ![p] = "idle"]
    /\ eid' = [eid EXCEPT ![p] = 0]
    /\ eitem' = [eitem EXCEPT ![p] = 0]
    /\ eresult' = [eresult EXCEPT ![p] = "StoreError"]
    /\ UNCHANGED <<nextId, wvars>>

\* lib.rs:31,32  the INSERT or the COMMIT fails (`?`), or the caller dies
\* with the transaction open: the store discards the transaction.  An id
\* the sequence already handed out is not given back.
EnqAbort(p) ==
    /\ epc[p] \in {"begun", "inserted"}
    /\ epc' = [epc EXCEPT ![p] = "idle"]
    /\ eid' = [eid EXCEPT ![p] = 0]
    /\ eitem' = [eitem EXCEPT ![p] = 0]
    /\ eresult' = [eresult EXCEPT ![p] = "StoreError"]
    /\ UNCHANGED <<rows, nextId, wvars>>

\* ================================================================ process
\* lib.rs:52  let mut tx = conn.begin().await?;
Begin(w) ==
    /\ pc[w] = "idle"
    /\ pc' = [pc EXCEPT ![w] = "begun"]
    /\ claimed' = [claimed EXCEPT ![w] = 0]
    /\ verdict' = [verdict EXCEPT ![w] = NoVerdict]
    /\ result' = [result EXCEPT ![w] = "None"]
    /\ UNCHANGED <<rows, nextId, evars>>

\* lib.rs:54-69  the claim statement returns a row: the row is locked and
\* its status is 'in-progress' inside this transaction; f is called on it.
Claim(w) ==
    /\ pc[w] = "begun"
    /\ SelectForUpdate # 0
    /\ claimed' = [claimed EXCEPT ![w] = SelectForUpdate]
    /\ pc' = [pc EXCEPT ![w] = "handling"]
    /\ UNCHANGED <<rows, nextId, verdict, result, evars>>

ClaimEmptyWaits(w) ==
    /\ pc[w] = "begun"
    /\ SelectForUpdate = 0
    /\ \A r \in Ids : rows[r].status = Ready => ~Locked(r)
    /\ pc' = [pc EXCEPT ![w] = "idle"]
    /\ result' = [result EXCEPT ![w] = "EmptyQueue"]
    /\ UNCHANGED <<rows, nextId, claimed, verdict, evars>>

\* lib.rs:68-69  fetch_one finds no row: RowNotFound leaves through `?`,
\* tx is dropped (rolled back), f is never called.
ClaimEmpty(w) ==
    /\ pc[w] = "begun"
    /\ SelectForUpdate = 0
    /\ pc' = [pc EXCEPT ![w] = "idle"]
    /\ result' = [result EXCEPT ![w] = "EmptyQueue"]
    /\ UNCHANGED <<rows, nextId, claimed, verdict, evars>>

TxCommitEveryReady(w) ==
    [r \in Ids |-> IF rows[r].status = Ready THEN Returned(r) ELSE rows[r]]

\* What the table holds once the transaction of w has committed: its one
\* write, the status update of the claim statement (lib.rs:57), is published.
TxCommit(w) == [rows EXCEPT ![claimed[w]] = Returned(claimed[w])]

\* What the table holds once the transaction of w is rolled back, by
\* tx.rollback(), by dropping tx, or by the store when the connection dies.
TxRollbackKeeps(w) ==
    IF claimed[w] \in Ids THEN [rows EXCEPT ![claimed[w]] = Returned(claimed[w])]
    ELSE rows
TxRollback(w) == rows

\* lib.rs:52, 68-69  begin or the claim statement fails in the store
BeginFail(w) ==
    /\ pc[w] = "idle"
    /\ claimed' = [claimed EXCEPT ![w] = 0]
    /\ verdict' = [verdict EXCEPT ![w] = NoVerdict]
    /\ result' = [result EXCEPT ![w] = "StoreError"]
    /\ UNCHANGED <<rows, nextId, pc, evars>>

ClaimFail(w) ==
    /\ pc[w] = "begun"
    /\ pc' = [pc EXCEPT ![w] = "idle"]
    /\ result' = [result EXCEPT ![w] = "StoreError"]
    /\ UNCHANGED <<rows, nextId, claimed, verdict, evars>>

HandlerErrCommits(w) ==
    /\ pc[w] = "handling"
    /\ verdict' = [verdict EXCEPT ![w] = [kind |-> "Err", msg |-> NULL]]
    /\ rows' = TxCommit(w)
    /\ pc' = [pc EXCEPT ![w] = "idle"]
    /\ result' = [result EXCEPT ![w] = "HandlerError"]
    /\ UNCHANGED <<nextId, claimed, evars>>

\* lib.rs:71  f(row)? with f returning Err(()): the error leaves through
\* `?`, tx goes out of scope and is rolled back.
HandlerErr(w) ==
    /\ pc[w] = "handling"
    /\ verdict' = [verdict EXCEPT ![w] = [kind |-> "Err", msg |-> NULL]]
    /\ rows' = TxRollback(w)
    /\ pc' = [pc EXCEPT ![w] = "idle"]
    /\ result' = [result EXCEPT ![w] = "HandlerError"]
    /\ UNCHANGED <<nextId, claimed, evars>>

\* lib.rs:72-75  ProcessFlow::Fail(error) => todo!(): the call panics;
\* unwinding drops tx, which rolls the transaction back.  Nothing is written
\* to the error column and process returns no value.
HandlerFail(w) ==
    /\ pc[w] = "handling"
    /\ \E m \in Msgs : verdict' = [verdict EXCEPT ![w] = [kind |-> "Fail", msg |-> m]]
    /\ rows' = TxRollback(w)
    /\ pc' = [pc EXCEPT ![w] = "idle"]
    /\ result' = [result EXCEPT ![w] = "Panic"]
    /\ UNCHANGED <<nextId, claimed, evars>>

\* lib.rs:76-77  ProcessFlow::Success: f has returned, tx.commit() is awaited
HandlerSuccess(w) ==
    /\ pc[w] = "handling"
    /\ verdict' = [verdict EXCEPT ![w] = [kind |-> "Success", msg |-> NULL]]
    /\ pc' = [pc EXCEPT ![w] = "committing"]
    /\ UNCHANGED <<rows, nextId, claimed, result, evars>>

\* lib.rs:79-80  ProcessFlow::Requeue: f has returned, tx.rollback() is awaited
HandlerRequeue(w) ==
    /\ pc[w] = "handling"
    /\ verdict' = [verdict EXCEPT ![w] = [kind |-> "Requeue", msg |-> NULL]]
    /\ pc' = [pc EXCEPT ![w] = "rollingback"]
    /\ UNCHANGED <<rows, nextId, claimed, result, evars>>

CommitPublishesNothing(w) ==
    /\ pc[w] = "committing"
    /\ rows' = rows
    /\ pc' = [pc EXCEPT ![w] = "idle"]
    /\ result' = [result EXCEPT ![w] = "Ok"]
    /\ UNCHANGED <<nextId, claimed, verdict, evars>>

\* lib.rs:77  tx.commit().await succeeds; the match ends, process returns
Commit(w) ==
    /\ pc[w] = "committing"
    /\ rows' = TxCommit(w)
    /\ pc' = [pc EXCEPT ![w] = "idle"]
    /\ result' = [result EXCEPT ![w] = "Ok"]
    /\ UNCHANGED <<nextId, claimed, verdict, evars>>

CommitFailKeeps(w) ==
    /\ pc[w] = "committing"
    /\ rows' = TxCommit(w)
    /\ pc' = [pc EXCEPT ![w] = "idle"]
    /\ result' = [result EXCEPT ![w] = "StoreError"]
    /\ UNCHANGED <<nextId, claimed, verdict, evars>>

\* lib.rs:77  tx.commit().await? fails: the store aborts the transaction
CommitFail(w) ==
    /\ pc[w] = "committing"
    /\ rows' = TxRollback(w)
    /\ pc' = [pc EXCEPT ![w] = "idle"]
    /\ result' = [result EXCEPT ![w] = "StoreError"]
    /\ UNCHANGED <<nextId, claimed, verdict, evars>>

RollbackCommits(w) ==
    /\ pc[w] = "rollingback"
    /\ rows' = TxCommit(w)
    /\ pc' = [pc EXCEPT ![w] = "idle"]
    /\ result' = [result EXCEPT ![w] = "Ok"]
    /\ UNCHANGED <<nextId, claimed, verdict, evars>>

\* lib.rs:80  tx.rollback().await succeeds; the match ends, process returns
Rollback(w) ==
    /\ pc[w] = "rollingback"
    /\ rows' = TxRollback(w)
    /\ pc' = [pc EXCEPT ![w] = "idle"]
    /\ result' = [result EXCEPT ![w] = "Ok"]
    /\ UNCHANGED <<nextId, claimed, verdict, evars>>

\* lib.rs:80  tx.rollback().await? fails: the transaction ends with the
\* connection, nothing of it is kept
RollbackFail(w) ==
    /\ pc[w] = "rollingback"
    /\ rows' = TxRollback(w)
    /\ pc' = [pc EXCEPT ![w] = "idle"]
    /\ result' = [result EXCEPT ![w] = "StoreError"]
    /\ UNCHANGED <<nextId, claimed, verdict, evars>>

\* The caller dies, or its connection is cut, anywhere between begin
\* (lib.rs:52) and the end of the transaction (lib.rs:77/80): the store
\* aborts the open transaction and frees its lock.
Crash(w) ==
    /\ pc[w] \in {"begun", "handling", "committing", "rollingback"}
    /\ rows' = TxRollback(w)
    /\ pc' = [pc EXCEPT ![w] = "idle"]
    /\ result' = [result EXCEPT ![w] = "Crashed"]
    /\ UNCHANGED <<nextId, claimed, verdict, evars>>

Next ==
    \/ \E p \in Producers : EnqSerializeFail(p)
    \/ \E p \in Producers : EnqBegin(p)
    \/ \E p \in Producers : EnqBeginFail(p)
    \/ \E p \in Producers : EnqInsert(p)
    \/ \E p \in Producers : EnqCommit(p)
    \/ \E p \in Producers : EnqAbort(p)
    \/ \E w \in Workers : BeginFail(w)
    \/ \E w \in Workers : Begin(w)
    \/ \E w \in Workers : ClaimFail(w)
    \/ \E w \in Workers : Claim(w)
    \/ \E w \in Workers : ClaimEmpty(w)
    \/ \E w \in Workers : HandlerErr(w)
    \/ \E w \in Workers : HandlerFail(w)
    \/ \E w \in Workers : HandlerSuccess(w)
    \/ \E w \in Workers : HandlerRequeue(w)
    \/ \E w \in Workers : Commit(w)
    \/ \E w \in Workers : CommitFail(w)
    \/ \E w \in Workers : Rollback(w)
    \/ \E w \in Workers : RollbackFail(w)
    \/ \E w \in Workers : Crash(w)

Spec == Init /\ [][Next]_vars
\* ------------------------------------------------- the contention scenario
\* N = NWorkers callers each invoke process once, all of them in flight
\* before the first claim statement runs, against a table that held at
\* least N Ready rows when the first of them began.  No store failure and
\* no crash: every call runs to its end.
RaceStarted(w) == pc[w] # "idle" \/ result[w] # "None"
RaceOpen == \A w \in Workers : ~RaceStarted(w)
RaceAllIn == \A w \in Workers : RaceStarted(w)
RaceEnqBegin(p) == RaceOpen /\ EnqBegin(p)
RaceEnqInsert(p) == RaceOpen /\ EnqInsert(p)
RaceEnqCommit(p) == RaceOpen /\ EnqCommit(p)
RaceEnqAbort(p) == RaceOpen /\ EnqAbort(p)
RaceBegin(w) ==
    /\ ~RaceStarted(w)
    /\ \A p \in Producers : epc[p] = "idle"
    /\ Cardinality({r \in Ids : rows[r].status = Ready}) >= NWorkers
    /\ Begin(w)
RaceClaim(w) ==
    /\ RaceAllIn
    /\ IF SelectForUpdate # 0 THEN Claim(w) ELSE ClaimEmpty(w)

NextRace ==
    \/ \E p \in Producers : RaceEnqBegin(p)
    \/ \E p \in Producers : RaceEnqInsert(p)
    \/ \E p \in Producers : RaceEnqCommit(p)
    \/ \E p \in Producers : RaceEnqAbort(p)
    \/ \E w \in Workers : RaceBegin(w)
    \/ \E w \in Workers : RaceClaim(w)
    \/ \E w \in Workers : HandlerErr(w)
    \/ \E w \in Workers : HandlerFail(w)
    \/ \E w \in Workers : HandlerSuccess(w)
    \/ \E w \in Workers : HandlerRequeue(w)
    \/ \E w \in Workers : Commit(w)
    \/ \E w \in Workers : Rollback(w)

SpecRace == Init /\ [][NextRace]_vars

\* ================================================================ claims
\* Steps of a process call, told by what they do to the caller's state.
ClaimStep(w)   == pc[w] = "begun" /\ pc'[w] = "handling"
Faulted(w)     == result'[w] \in {"StoreError", "Crashed"}
\* w's last call ended by giving its row back (rollback), and w has not
\* called process again since.
Released(w) ==
    /\ pc[w] = "idle"
    /\ claimed[w] \in Ids
    /\ \/ result[w] \in {"HandlerError", "Panic", "StoreError", "Crashed"}
       \/ result[w] = "Ok" /\ verdict[w].kind = "Requeue"
HeldByOther(w, r) == \E v \in Workers \ {w} : Holds(v, r)

\* C1: at every instant a row is claimed (locked, handed to a handler) by
\* at most one open process transaction.
C1_MutualExclusion ==
    \A w1, w2 \in Workers :
        (w1 # w2 /\ InTx(w1) /\ InTx(w2)) => claimed[w1] # claimed[w2]

\* Two handlers run at the same time, on different rows.
C1_Witness ==
    \E w1, w2 \in Workers :
        /\ w1 # w2
        /\ pc[w1] = "handling" /\ pc[w2] = "handling"
        /\ claimed[w1] \in Ids /\ claimed[w2] \in Ids

\* C2 as stated: of N concurrent callers against M >= N Ready rows no two
\* ever claim the same row (here even with the panicking Fail branch left
\* out of account).
C2_Original ==
    \A w1, w2 \in Workers :
        (/\ w1 # w2
         /\ claimed[w1] \in Ids /\ claimed[w2] \in Ids
         /\ verdict[w1].kind # "Fail" /\ verdict[w2].kind # "Fail")
        => claimed[w1] # claimed[w2]

\* C2 (amended): of N concurrent callers against M >= N Ready rows none
\* receives EmptyQueue, every caller that has finished did claim a row, and
\* two callers claim the same row only when the first one's transaction on
\* it was rolled back before the second claimed it.
C2_DistinctUnlessReleased ==
    /\ \A w \in Workers : result[w] # "EmptyQueue"
    /\ \A w \in Workers :
        (pc[w] = "idle" /\ result[w] # "None") => claimed[w] \in Ids
    /\ \A w1, w2 \in Workers :
        (w1 # w2 /\ claimed[w1] \in Ids /\ claimed[w1] = claimed[w2])
        => (Released(w1) \/ Released(w2))

\* Both callers have finished, each on a row of its own, both committed.
C2_Witness ==
    /\ \A w \in Workers : pc[w] = "idle" /\ result[w] = "Ok"
                            /\ verdict[w].kind = "Success"
    /\ \A w1, w2 \in Workers : w1 # w2 => claimed[w1] # claimed[w2]

\* C3: a claim takes the lowest id among the committed rows that are Ready
\* and not locked by another open transaction.
C3_Fifo ==
    [][\A w \in Workers : ClaimStep(w) =>
        /\ claimed'[w] \in Ids
        /\ rows[claimed'[w]].status = Ready
        /\ ~HeldByOther(w, claimed'[w])
        /\ \A r \in Ids : r < claimed'[w] =>
                (rows[r].status # Ready \/ HeldByOther(w, r))]_vars

\* A caller has claimed row 1 while row 2 was Ready and unlocked too.
C3_Witness ==
    \E w \in Workers :
        /\ pc[w] = "handling" /\ claimed[w] = 1
        /\ rows[2].status = Ready /\ ~Locked(2)

\* C4 as stated: a call whose handler returned Success and which returned
\* Ok leaves the row committed as Done.
C4_SuccessMarksDone ==
    \A w \in Workers :
        (pc[w] = "idle" /\ verdict[w].kind = "Success" /\ result[w] = "Ok")
        => rows[claimed[w]].status = Done

\* C5 as stated: a call whose handler returned Fail(m) returns Ok and
\* leaves the row committed as Failed with error = m.
C5_FailMarksFailed ==
    \A w \in Workers :
        (pc[w] = "idle" /\ verdict[w].kind = "Fail")
        => /\ result[w] = "Ok"
           /\ rows[claimed[w]].status = Failed
           /\ rows[claimed[w]].error = verdict[w].msg

\* C6: the end of a call whose handler returned Requeue leaves the
\* committed table as it was, the row Ready and claimable, and returns Ok
\* (unless the rollback itself failed); the next claim takes that row when
\* no lower-id Ready row is there.
C6_Requeue ==
    [][\A w \in Workers :
        /\ (pc[w] = "rollingback" /\ pc'[w] = "idle") =>
            /\ verdict[w].kind = "Requeue"
            /\ rows' = rows
            /\ rows'[claimed[w]].status = Ready
            /\ claimed[w] \in Claimable'
            /\ (~Faulted(w) => result'[w] = "Ok")
        /\ \A v \in Workers :
            (/\ ClaimStep(v)
             /\ pc[w] = "idle" /\ verdict[w].kind = "Requeue" /\ result[w] = "Ok"
             /\ rows[claimed[w]].status = Ready /\ ~Locked(claimed[w])
             /\ \A r \in Ids : r < claimed[w] => rows[r].status # Ready)
            => claimed'[v] = claimed[w]]_vars

\* A requeued row, still Ready in the table, is held by the next caller.
C6_Witness ==
    \E w, v \in Workers :
        /\ pc[w] = "idle" /\ verdict[w].kind = "Requeue" /\ result[w] = "Ok"
        /\ pc[v] = "handling" /\ claimed[v] = claimed[w]
        /\ rows[claimed[w]].status = Ready

\* C7: a handler error ends the call with the committed table as it was,
\* the row Ready and claimable, and an error (not Ok) returned; the next
\* claim takes that row when no lower-id Ready row is there.
C7_HandlerError ==
    [][\A w \in Workers :
        /\ (pc[w] = "handling" /\ verdict'[w].kind = "Err") =>
            /\ pc'[w] = "idle"
            /\ rows' = rows
            /\ rows'[claimed[w]].status = Ready
            /\ claimed[w] \in Claimable'
            /\ result'[w] = "HandlerError"
        /\ \A v \in Workers :
            (/\ ClaimStep(v)
             /\ pc[w] = "idle" /\ result[w] = "HandlerError"
             /\ rows[claimed[w]].status = Ready /\ ~Locked(claimed[w])
             /\ \A r \in Ids : r < claimed[w] => rows[r].status # Ready)
            => claimed'[v] = claimed[w]]_vars

\* A row whose handler errored, still Ready in the table, is held by the
\* next caller.
C7_Witness ==
    \E w, v \in Workers :
        /\ pc[w] = "idle" /\ verdict[w].kind = "Err" /\ result[w] = "HandlerError"
        /\ pc[v] = "handling" /\ claimed[v] = claimed[w]
        /\ rows[claimed[w]].status = Ready

\* C8: a claim statement that finds no committed Ready unlocked row ends
\* the call at once with EmptyQueue, without a handler call and without a
\* change to the table; the claim statement can always run (it never waits
\* for a lock), and EmptyQueue is returned in no other case.
C8_EmptyQueue ==
    /\ [](\A w \in Workers :
            pc[w] = "begun" => ENABLED (Claim(w) \/ ClaimEmpty(w)))
    /\ [][\A w \in Workers :
        /\ (/\ pc[w] = "begun" /\ pc'[w] # "begun" /\ ~Faulted(w)
            /\ \A r \in Ids : rows[r].status # Ready \/ HeldByOther(w, r))
            => /\ pc'[w] = "idle"
               /\ result'[w] = "EmptyQueue"
               /\ verdict'[w] = NoVerdict /\ claimed'[w] = 0
               /\ rows' = rows
        /\ (result[w] # "EmptyQueue" /\ result'[w] = "EmptyQueue")
            => (\A r \in Ids : rows[r].status # Ready \/ HeldByOther(w, r))]_vars

\* A call got EmptyQueue from a table that is not empty: a row is handled
\* and committed, another is locked by a caller still at work.
C8_Witness ==
    \E w, v \in Workers :
        /\ pc[w] = "idle" /\ result[w] = "EmptyQueue"
        /\ pc[v] = "handling"
        /\ \E r \in Ids : rows[r].status = InProgress
        /\ \A r \in Ids : rows[r].status # Absent

C10_CrashRequeues ==
    [][\A w \in Workers :
        (InTx(w) /\ pc'[w] = "idle" /\ result'[w] = "Crashed") =>
            /\ rows' = rows
            /\ rows'[claimed[w]].status = Ready
            /\ ~Locked(claimed[w])'
            /\ claimed[w] \in Claimable']_vars

\* A caller died after its handler returned Success, before the commit;
\* another caller holds the row it had.
C10_Witness ==
    \E w, v \in Workers :
        /\ pc[w] = "idle" /\ result[w] = "Crashed" /\ verdict[w].kind = "Success"
        /\ pc[v] = "handling" /\ claimed[v] = claimed[w]

\* Steps of an enqueue call, told by what they do to the caller's state.
EnqInsertStep(p) == epc[p] = "begun" /\ epc'[p] = "inserted"
EnqCommitStep(p) == epc[p] = "inserted" /\ epc'[p] = "idle" /\ eresult'[p] = "Ok"
EnqFailStep(p) ==
    /\ eresult'[p] \in {"SerializationError", "StoreError"}
    /\ <<epc[p], eid[p], eitem[p], eresult[p]>> # <<epc'[p], eid'[p], eitem'[p], eresult'[p]>>

\* C11 as stated: the ids are strictly increasing in the order the
\* enqueues commit: an enqueue that commits finds only smaller ids in the
\* table.
C11_Original ==
    [][\A p \in Producers : EnqCommitStep(p) =>
        \A r \in Ids : rows[r].status # Absent => r < eid[p]]_vars

\* C11 (amended): the ids are pairwise distinct and strictly increasing in
\* the order the INSERT statements run: the id an INSERT returns is larger
\* than every id in the table and than every id returned to another caller
\* so far, it is the id the call commits and returns.
C11_IdsIncreaseAtInsert ==
    /\ [](\A p, q \in Producers : (p # q /\ eid[p] # 0) => eid[p] # eid[q])
    /\ [][\A p \in Producers :
        /\ EnqInsertStep(p) =>
            /\ eid'[p] \in Ids
            /\ \A r \in Ids : rows[r].status # Absent => r < eid'[p]
            /\ \A q \in Producers \ {p} : eid[q] < eid'[p]
        /\ EnqCommitStep(p) =>
            /\ eid'[p] = eid[p]
            /\ rows[eid[p]].status = Absent
            /\ rows'[eid[p]].status # Absent]_vars

\* Two enqueues have returned, with ids 1 and 2.
C11_Witness ==
    \E p, q \in Producers :
        /\ epc[p] = "idle" /\ eresult[p] = "Ok" /\ eid[p] = 1
        /\ epc[q] = "idle" /\ eresult[q] = "Ok" /\ eid[q] = 2
        /\ rows[1].status # Absent /\ rows[2].status # Absent

\* C12: an enqueue that returns Ok(id) has added exactly the row id, Ready,
\* with its serialized item and no error, claimable from then on, and has
\* left every other row as it was; an enqueue that returns an error leaves
\* the whole table as it was, and no step of an enqueue before its commit
\* shows in the table.
C12_EnqueueAtomic ==
    [][\A p \in Producers :
        /\ EnqCommitStep(p) =>
            /\ rows[eid[p]] = NoRow
            /\ rows'[eid[p]] = [status |-> Ready, item |-> eitem[p], error |-> NULL]
            /\ Serializable(eitem[p])
            /\ \A r \in Ids \ {eid[p]} : rows'[r] = rows[r]
            /\ eid[p] \in Claimable'
        /\ EnqFailStep(p) => rows' = rows
        /\ (epc'[p] # "idle") => (epc'[p] = epc[p] \/ rows' = rows)]_vars

\* One enqueue has returned Ok and its row is in the table, Ready; another
\* has failed after its INSERT and its id is in no row.
C12_Witness ==
    \E p, q \in Producers :
        /\ epc[p] = "idle" /\ eresult[p] = "Ok" /\ eid[p] = 2
        /\ rows[2].status = Ready /\ rows[2].item # 0 /\ rows[2].error = NULL
        /\ epc[q] = "idle" /\ eresult[q] = "StoreError"
        /\ rows[1] = NoRow /\ nextId = 3

\* ------------------------------------------------- callers that keep going
\* Every caller of process keeps calling it and every call runs to its end:
\* no store failure, no crash, and a handler that answers each item with a
\* final verdict (Success or Fail) the first time it sees it.
WorkerStep(w) ==
    \/ Begin(w) \/ Claim(w) \/ ClaimEmpty(w)
    \/ HandlerSuccess(w) \/ HandlerFail(w) \/ Commit(w)

NextLive ==
    \/ \E p \in Producers : EnqBegin(p)
    \/ \E p \in Producers : EnqInsert(p)
    \/ \E p \in Producers : EnqCommit(p)
    \/ \E w \in Workers : Begin(w)
    \/ \E w \in Workers : Claim(w)
    \/ \E w \in Workers : ClaimEmpty(w)
    \/ \E w \in Workers : HandlerSuccess(w)
    \/ \E w \in Workers : HandlerFail(w)
    \/ \E w \in Workers : Commit(w)

SpecLive ==
    Init /\ [][NextLive]_vars /\ \A w \in Workers : WF_vars(WorkerStep(w))

\* C13 as stated: with callers that keep calling process and a handler that
\* ends every item with Success or Fail, every enqueued row is in the end
\* committed as Done or Failed.
C13_RetryUntilTerminal ==
    \A r \in Ids :
        [](rows[r].status = Ready => <>(rows[r].status \in {Done, Failed}))

\* C14 as stated: in every committed state of the table each row is Ready,
\* Done or Failed; InProgress is seen inside the claiming transaction only.
C14_InProgressNeverCommitted ==
    \A r \in Ids : rows[r].status \in {Absent, Ready, Done, Failed}

\* A step of worker w's process call.
ProcStep(w) ==
    <<pc[w], claimed[w], verdict[w], result[w]>>
        # <<pc'[w], claimed'[w], verdict'[w], result'[w]>>
StatusChanged == {r \in Ids : rows'[r].status # rows[r].status}

\* C15 as stated: a process call that returns Ok has durably changed the
\* status of exactly one row.
C15_Original ==
    [][\A w \in Workers :
        (pc[w] # "idle" /\ pc'[w] = "idle" /\ result'[w] = "Ok")
        => Cardinality(StatusChanged) = 1]_vars

\* C15 (amended): the step that commits a call (handler returned Success)
\* changes the status of the claimed row and nothing else; every other step
\* of a process call, the end of an Ok call on Requeue, EmptyQueue and the
\* handler-error path included, changes no row; process inserts and deletes
\* no row, and no step of any call deletes a row or changes its payload.
C15_Frame ==
    [][/\ \A r \in Ids : rows[r].status # Absent =>
            (rows'[r].status # Absent /\ rows'[r].item = rows[r].item)
       /\ \A w \in Workers : ProcStep(w) =>
            /\ \A r \in Ids : (rows[r].status = Absent) <=> (rows'[r].status = Absent)
            /\ IF pc[w] = "committing" /\ result'[w] = "Ok"
               THEN /\ StatusChanged = {claimed[w]}
                    /\ \A r \in Ids : rows'[r].item = rows[r].item
                    /\ \A r \in Ids : rows'[r].error = rows[r].error
               ELSE rows' = rows]_vars

\* One call has committed its row, another has returned Ok on Requeue and
\* left its row Ready.
C15_Witness ==
    \E w, v \in Workers :
        /\ pc[w] = "idle" /\ result[w] = "Ok" /\ verdict[w].kind = "Success"
        /\ rows[claimed[w]].status = InProgress
        /\ pc[v] = "idle" /\ result[v] = "Ok" /\ verdict[v].kind = "Requeue"
        /\ rows[claimed[v]].status = Ready

\* C16: a process call in which a store step fails (begin, the claim
\* statement, commit, rollback) ends there with that error, without another
\* attempt, and leaves the committed table as it was: a row the call had
\* claimed is Ready and claimable.  Ok is returned from a commit only when
\* the commit took effect.
C16_StoreFailure ==
    [][\A w \in Workers :
        /\ (ProcStep(w) /\ result'[w] = "StoreError") =>
            /\ pc'[w] = "idle"
            /\ rows' = rows
            /\ InTx(w) => /\ rows'[claimed[w]].status = Ready
                          /\ claimed[w] \in Claimable'
        /\ (pc[w] = "committing" /\ pc'[w] = "idle" /\ rows' = rows)
            => result'[w] # "Ok"]_vars

\* The commit of a call failed after its handler had returned Success; the
\* row is Ready in the table and the next caller holds it.
C16_Witness ==
    \E w, v \in Workers :
        /\ pc[w] = "idle" /\ result[w] = "StoreError" /\ verdict[w].kind = "Success"
        /\ rows[claimed[w]].status = Ready
        /\ pc[v] = "handling" /\ claimed[v] = claimed[w]

\* C17: a caller never waits for a row another transaction has locked: when
\* some Ready row is locked by another caller and some Ready row is not, the
\* claim statement can run and takes the lowest-id Ready row that is not
\* locked.
C17_SkipLocked ==
    /\ [](\A w \in Workers :
            (pc[w] = "begun"
             /\ \E r \in Ids : rows[r].status = Ready /\ ~HeldByOther(w, r))
            => ENABLED Claim(w))
    /\ [][\A w \in Workers :
        (/\ pc[w] = "begun" /\ pc'[w] # "begun" /\ ~Faulted(w)
         /\ \E r \in Ids : rows[r].status = Ready /\ HeldByOther(w, r)
         /\ \E r \in Ids : rows[r].status = Ready /\ ~HeldByOther(w, r))
        => /\ pc'[w] = "handling"
           /\ rows[claimed'[w]].status = Ready
           /\ ~HeldByOther(w, claimed'[w])
           /\ \A r \in Ids : (r < claimed'[w] /\ rows[r].status = Ready)
                                => HeldByOther(w, r)]_vars

\* Two callers hold claims at the same time: one has row 1 and its handler
\* has returned, the other has taken row 2 and its handler runs.
C17_Witness ==
    \E w, v \in Workers :
        /\ pc[w] \in {"committing", "rollingback"} /\ claimed[w] = 1
        /\ pc[v] = "handling" /\ claimed[v] = 2
        /\ rows[1].status = Ready /\ rows[2].status = Ready

C19_Original ==
    [][\A w, v \in Workers :
        (ClaimStep(v) /\ pc[w] = "idle" /\ verdict[w].kind = "Success")
        => claimed'[v] # claimed[w]]_vars

\* C19 (amended): a row is handed to a handler only while its committed
\* status is Ready, the commit of a Success takes it out of Ready for good,
\* and a row whose Success was committed is never handed to a handler again.
C19_CommittedOnce ==
    [][/\ \A r \in Ids : rows[r].status \notin {Ready, Absent}
                            => rows'[r].status = rows[r].status
       /\ \A w \in Workers :
            /\ (pc[w] = "committing" /\ result'[w] = "Ok") =>
                /\ rows[claimed[w]].status = Ready
                /\ rows'[claimed[w]].status \notin {Ready, Absent}
            /\ ClaimStep(w) => rows[claimed'[w]].status = Ready
            /\ \A v \in Workers :
                (/\ ClaimStep(v)
                 /\ pc[w] = "idle" /\ verdict[w].kind = "Success" /\ result[w] = "Ok")
                => claimed'[v] # claimed[w]]_vars

\* A Success was committed on a row and a later call has found nothing to
\* claim.
C19_Witness ==
    \E w, v \in Workers :
        /\ pc[w] = "idle" /\ result[w] = "Ok" /\ verdict[w].kind = "Success"
        /\ rows[claimed[w]].status = InProgress
        /\ pc[v] = "idle" /\ result[v] = "EmptyQueue"
        /\ \E r \in Ids : rows[r].status = Absent

\* ------------------------------------------------- one caller, no progress
\* A single caller calls process again and again, one call after the other,
\* with a handler that answers Requeue or fails; enqueues go on beside it.
\* The row and the verdict of the caller's previous call stay on record
\* until its next claim and its next verdict replace them.
Solo == SetMin(Workers)
SoloBegin(w) ==
    /\ w = Solo
    /\ pc[w] = "idle"
    /\ pc' = [pc EXCEPT ![w] = "begun"]
    /\ result' = [result EXCEPT ![w] = "None"]
    /\ UNCHANGED <<rows, nextId, claimed, verdict, evars>>

NextSolo ==
    \/ \E p \in Producers : EnqBegin(p)
    \/ \E p \in Producers : EnqInsert(p)
    \/ \E p \in Producers : EnqCommit(p)
    \/ \E p \in Producers : EnqAbort(p)
    \/ SoloBegin(Solo)
    \/ Claim(Solo)
    \/ ClaimEmpty(Solo)
    \/ HandlerErr(Solo)
    \/ HandlerRequeue(Solo)
    \/ Rollback(Solo)

SpecSolo == Init /\ [][NextSolo]_vars

\* C20: with one sequential caller whose handler keeps answering Requeue or
\* failing, no row ever leaves Ready, every claim takes the lowest-id Ready
\* row, never a higher one, and it is the row of the previous call again
\* unless a row of lower id has become Ready in between.
C20_HeadOfLine ==
    [][/\ \A r \in Ids : rows[r].status = Ready => rows'[r] = rows[r]
       /\ ClaimStep(Solo) =>
            /\ rows[claimed'[Solo]].status = Ready
            /\ \A r \in Ids : r < claimed'[Solo] => rows[r].status # Ready
            /\ (/\ claimed[Solo] \in Ids
                /\ \A r \in Ids : r < claimed[Solo] => rows[r].status # Ready)
               => claimed'[Solo] = claimed[Solo]]_vars

\* The caller holds row 1 once more after a call that ended in Requeue or
\* in a handler error, while row 2 is Ready behind it.
C20_Witness ==
    /\ pc[Solo] = "handling" /\ claimed[Solo] = 1
    /\ verdict[Solo].kind \in {"Requeue", "Err"}
    /\ rows[2].status = Ready
====
